---- MODULE Spec2Model ----
(***************************************************************************)
(* A model of the solution-detail page component (SolutionDetailComponent) *)
(* and of the HTTP authorization interceptor (AuthInterceptor).            *)
(*                                                                         *)
(* The component runs on one thread: every action below is one handler or  *)
(* one HTTP callback run to completion.  Requests that were issued and not *)
(* yet answered are the bag `inflight`; they are answered in any order.    *)
(***************************************************************************)
EXTENDS Integers, Sequences, FiniteSets, Bags, TLC

(* ------------------------------ bounds -------------------------------- *)

\* Most events (route emissions, clicks, edits, sign-ins, teardown) of one run.
MaxEvents == 3

\* Most requests that may be unanswered at one time.
MaxInFlight == 4

\* Longest path, in symbols, appended to a URL prefix (interceptor inputs).
MaxTail == 5

(* ------------------------- program constants -------------------------- *)

\* The page size, a literal of every paginated call.
PageSize == 10

\* The HTTP status submitComment's error handler singles out.
Unauthorized == 401

(* ---------------------------- environment ----------------------------- *)

Slugs == {"a", "b"}

NoSolution == "null"

NoSlug == "none"

\* The lists the server holds for each slug: how many entries each has.
Total(kind, s) ==
  CASE kind = "official" -> (IF s = "a" THEN 3 ELSE 12)
    [] kind = "user"     -> (IF s = "a" THEN 25 ELSE 3)
    [] kind = "ratings"  -> (IF s = "a" THEN 25 ELSE 10)
    [] OTHER             -> 0

\* An entry of a server list: the slug it belongs to and its position.
Item(s, i) == <<s, i>>

\* response.data of GET ...?skip&limit: the entries skip+1 .. skip+limit.
ServerSlice(kind, s, skip, limit) ==
  LET t == Total(kind, s)
      n == IF skip >= t THEN 0 ELSE IF t - skip < limit THEN t - skip ELSE limit
  IN  [i \in 1..n |-> Item(s, skip + i)]

\* The first n entries of a server list.
ServerPrefix(kind, s, n) == [i \in 1..n |-> Item(s, i)]

Min(x, y) == IF x < y THEN x ELSE y

\* Compose texts: empty, blank, and a padded word.
Texts == {<<>>, <<" ", " ">>, <<" ", "h">>}

RatingScores == {0, 4}

RatingComments == {<<"h">>}

\* The four GETs of the page.
FetchKinds == {"solution", "official", "user", "ratings"}

NoBody == [score |-> 0, text |-> <<>>]

\* An HTTP call that was issued and is not answered yet.
Req(kind, s, skip, limit, body) ==
  [kind |-> kind, slug |-> s, skip |-> skip, limit |-> limit, body |-> body]

\* How a call ends: next(response) with response.success, or error(status)
\* with the detail the server may supply.
Outcome(ok, success, status, detail) ==
  [ok |-> ok, success |-> success, status |-> status, detail |-> detail]

Success == Outcome(TRUE, TRUE, 200, "")

NoSuccess == Outcome(TRUE, FALSE, 200, "")

\* The callbacks of a fetch read neither the status nor the detail.
FetchOutcomes == {Success, NoSuccess, Outcome(FALSE, FALSE, 500, "")}

CommentOutcomes ==
  {Success, NoSuccess, Outcome(FALSE, FALSE, Unauthorized, ""),
   Outcome(FALSE, FALSE, 500, "")}

RatingOutcomes ==
  {Success, NoSuccess, Outcome(FALSE, FALSE, 500, ""),
   Outcome(FALSE, FALSE, 400, "Already rated")}

Succeeded(o) == o.ok /\ o.success

\* One messageService.add call.
Msg(severity, detail) == [severity |-> severity, detail |-> detail]

(* ------------------------------- state -------------------------------- *)

VARIABLES
  phase,                    \* "constructed", "active" (after ngOnInit), "destroyed"
  slug,                     \* the route's slug parameter
  solution,                 \* solution$.value: the slug of the solution held
  officialComments,         \* officialComments$.value
  userComments,             \* userComments$.value
  ratings,                  \* ratings$.value
  loading,
  loadingOfficialComments,
  loadingUserComments,
  loadingRatings,
  hasMoreUserComments,
  hasMoreRatings,
  totalOfficialComments,
  totalUserComments,
  totalRatings,
  userCommentsPage,
  ratingsPage,
  newComment,
  newRating,
  isLoggedIn,
  inflight,                 \* bag of the calls not answered yet
  messages,                 \* the messageService.add calls of the last handler
  dialogs,                  \* the dialogService.open calls of the last handler
  userLoads,                \* history: loadComments calls since the last reset
  ratingLoads,              \* history: loadRatings calls since the last reset
  userClean,                \* history: those calls were sequential and answered
  ratingClean,
  userSlug,                 \* history: the slug of the last reset of the feed
  ratingSlug,
  userApplied,              \* history: the skips of the USER pages appended since the reset
  ratingApplied,            \* history: the skips of the ratings pages appended since the reset
  lastOk,                   \* history: per kind, a fetch was answered and the last one succeeded
  visited,                  \* history: the slugs the route has emitted
  handler,                  \* history: the handler that ran last
  request,                  \* interceptor: the outgoing request
  token,                    \* interceptor: localStorage["auth_token"]
  forwarded,                \* interceptor: the request given to next.handle
  events                    \* history: how many events were handled

solVars == <<solution, loading>>

commentVars ==
  <<officialComments, userComments, userCommentsPage, loadingOfficialComments,
    loadingUserComments, hasMoreUserComments, totalOfficialComments,
    totalUserComments, userLoads, userClean, userSlug, userApplied>>

ratingVars ==
  <<ratings, ratingsPage, hasMoreRatings, loadingRatings, totalRatings,
    ratingLoads, ratingClean, ratingSlug, ratingApplied>>

composeVars == <<newComment, newRating>>

authVars == <<request, token, forwarded>>

compVars ==
  <<phase, slug, solVars, commentVars, ratingVars, composeVars, isLoggedIn,
    inflight, messages, dialogs, lastOk, visited, handler, events>>

vars == <<compVars, authVars>>

(* ----------------------- the interceptor's inputs ---------------------- *)

\* URLs are sequences of symbols: "/" and path words.  environment.apiUrl:
ApiUrl == <<"https://host", "/", "api">>

UrlPrefixes == {<<>>, ApiUrl, <<"https://cdn">>}

TailSymbols == {"/", "users", "me", "solutions", "my"}

UrlTails == UNION {[1..n -> TailSymbols] : n \in 0..MaxTail}

Methods == {"GET", "POST", "PUT", "DELETE"}

NoToken == "null"

Tokens == {NoToken, "", "t0k3n"}

NoRequest == [url |-> <<>>, method |-> "", headers |-> {}]

(* ------------------------------ Init ---------------------------------- *)

\* The component's fields after construction.
InitComponent ==
  /\ phase = "constructed"
  /\ slug = NoSlug
  /\ solution = NoSolution
  /\ officialComments = <<>>
  /\ userComments = <<>>
  /\ ratings = <<>>
  /\ loading = TRUE
  /\ loadingOfficialComments = FALSE
  /\ loadingUserComments = FALSE
  /\ loadingRatings = FALSE
  /\ hasMoreUserComments = TRUE
  /\ hasMoreRatings = TRUE
  /\ totalOfficialComments = 0
  /\ totalUserComments = 0
  /\ totalRatings = 0
  /\ userCommentsPage = 0
  /\ ratingsPage = 0
  /\ newComment = <<>>
  /\ newRating = [score |-> 0, comment |-> <<>>]
  /\ isLoggedIn = FALSE
  /\ inflight = EmptyBag
  /\ messages = <<>>
  /\ dialogs = 0
  /\ userLoads = 0
  /\ ratingLoads = 0
  /\ userClean = TRUE
  /\ ratingClean = TRUE
  /\ userSlug = NoSlug
  /\ ratingSlug = NoSlug
  /\ userApplied = <<>>
  /\ ratingApplied = <<>>
  /\ lastOk = [kind \in FetchKinds |-> FALSE]
  /\ visited = {}
  /\ handler = "constructor"
  /\ events = 0

Init ==
  /\ InitComponent
  /\ request = NoRequest
  /\ token = NoToken
  /\ forwarded = NoRequest

(* ------------------- the component: shared helpers -------------------- *)

InFlightKind(kind) == \E r \in BagToSet(inflight) : r.kind = kind

One(r) == SetToBag({r})

\* The bag without its calls of the given kinds.
Without(bag, kinds) ==
  [r \in {x \in BagToSet(bag) : x.kind \notin kinds} |-> bag[r]]

Fits(bag) == BagCardinality(bag) <= MaxInFlight

\* One more event is handled, by the named handler.
Event(name) ==
  /\ events < MaxEvents
  /\ events' = events + 1
  /\ handler' = name

\* An HTTP callback runs: no new event.
Callback ==
  /\ UNCHANGED events
  /\ handler' = "callback"

\* A slip in the comparison: a full last page would leave hasMore set.
HasMoreOffByOne(current, data, total) == Len(current) + Len(data) <= total

\* A slip: the entries already held left out of the sum.
HasMoreOfPage(current, data, total) == Len(data) < total

\* hasMore as both success callbacks compute it.
HasMore(current, data, total) == Len(current) + Len(data) < total

\* String.prototype.trim on a compose text: blanks dropped at both ends.
RECURSIVE TrimLeft(_)
TrimLeft(t) ==
  IF t # <<>> /\ Head(t) = " " THEN TrimLeft(Tail(t)) ELSE t

RECURSIVE TrimRight(_)
TrimRight(t) ==
  IF t # <<>> /\ t[Len(t)] = " " THEN TrimRight(SubSeq(t, 1, Len(t) - 1)) ELSE t

Trim(t) == TrimRight(TrimLeft(t))

(* ----------------------------- loadSolution --------------------------- *)

LoadSolution(s) ==
  /\ loading' = TRUE
  /\ UNCHANGED solution

SolutionReqs(s) == One(Req("solution", s, 0, 0, NoBody))

(* ----------------------------- loadComments --------------------------- *)

\* The page the USER request of loadComments(s, more) asks for.
CommentsPage(more) == IF more THEN userCommentsPage ELSE 0

LoadComments(s, more) ==
  /\ userCommentsPage' = CommentsPage(more)
  /\ officialComments' = (IF more THEN officialComments ELSE <<>>)
  /\ userComments' = (IF more THEN userComments ELSE <<>>)
  /\ loadingOfficialComments' = TRUE
  /\ loadingUserComments' = TRUE
  /\ UNCHANGED <<hasMoreUserComments, totalOfficialComments, totalUserComments>>
  /\ userLoads' = (IF more THEN userLoads + 1 ELSE 1)
  /\ userApplied' = (IF more THEN userApplied ELSE <<>>)
  /\ userSlug' = (IF more THEN userSlug ELSE s)
  /\ userClean' = /\ ~InFlightKind("user")
                  /\ (more => userClean /\ s = userSlug)

\* Both requests are issued on every call: nothing guards them.
CommentsReqs(s, more) ==
  One(Req("official", s, 0, PageSize, NoBody))
    (+) One(Req("user", s, CommentsPage(more) * PageSize, PageSize, NoBody))

(* ----------------------------- loadRatings ---------------------------- *)

\* The early return of loadRatings.
LoadRatingsBlocked(hasMore, isLoading) == ~hasMore \/ isLoading

RatingsHasMore(more) == IF more THEN hasMoreRatings ELSE TRUE

RatingsPage(more) == IF more THEN ratingsPage ELSE 0

LoadRatings(s, more) ==
  /\ ratingsPage' = RatingsPage(more)
  /\ ratings' = (IF more THEN ratings ELSE <<>>)
  /\ hasMoreRatings' = RatingsHasMore(more)
  /\ loadingRatings' =
       (IF LoadRatingsBlocked(RatingsHasMore(more), loadingRatings)
          THEN loadingRatings ELSE TRUE)
  /\ UNCHANGED totalRatings
  /\ ratingLoads' = (IF more THEN ratingLoads + 1 ELSE 1)
  /\ ratingApplied' = (IF more THEN ratingApplied ELSE <<>>)
  /\ ratingSlug' = (IF more THEN ratingSlug ELSE s)
  /\ ratingClean' = /\ ~InFlightKind("ratings")
                    /\ (more => ratingClean /\ s = ratingSlug)

RatingsReqs(s, more) ==
  IF LoadRatingsBlocked(RatingsHasMore(more), loadingRatings)
    THEN EmptyBag
    ELSE One(Req("ratings", s, RatingsPage(more) * PageSize, PageSize, NoBody))

(* ------------------------- ngOnInit / navigation ---------------------- *)

\* The route.params subscriber: one emission of the slug parameter.
OnParams(s) ==
  /\ slug' = s
  /\ visited' = visited \cup {s}
  /\ UNCHANGED lastOk
  /\ LoadSolution(s)
  /\ LoadComments(s, FALSE)
  /\ LoadRatings(s, FALSE)
  /\ inflight' = inflight (+) SolutionReqs(s) (+) CommentsReqs(s, FALSE)
                          (+) RatingsReqs(s, FALSE)
  /\ Fits(inflight')
  /\ messages' = <<>>
  /\ dialogs' = 0
  /\ UNCHANGED <<composeVars, authVars>>

\* ngOnInit subscribes to the route, which emits its current parameters, and
\* to authService.currentUser$, which emits the user signed in, if any.
NgOnInit(s, present) ==
  /\ Event("ngOnInit")
  /\ phase = "constructed"
  /\ phase' = "active"
  /\ isLoggedIn' = present
  /\ OnParams(s)

\* The router emits again when the slug parameter changes.
RouteChange(s) ==
  /\ Event("params")
  /\ phase = "active"
  /\ s # slug
  /\ UNCHANGED <<phase, isLoggedIn>>
  /\ OnParams(s)

\* The authService.currentUser$ subscriber (never unsubscribed).
AuthUser(present) ==
  /\ Event("currentUser")
  /\ phase # "constructed"
  /\ isLoggedIn' = present
  /\ messages' = <<>>
  /\ dialogs' = 0
  /\ UNCHANGED <<phase, slug, solVars, commentVars, ratingVars, composeVars,
                 inflight, authVars>>
  /\ UNCHANGED <<lastOk, visited>>

\* ngOnDestroy: destroy$ fires; the two comment fetches are piped through
\* takeUntil(destroy$), are unsubscribed, and their finalize callbacks run.
NgOnDestroy ==
  /\ Event("ngOnDestroy")
  /\ phase = "active"
  /\ phase' = "destroyed"
  /\ inflight' = Without(inflight, {"official", "user"})
  /\ loadingOfficialComments' =
       (IF InFlightKind("official") THEN FALSE ELSE loadingOfficialComments)
  /\ loadingUserComments' =
       (IF InFlightKind("user") THEN FALSE ELSE loadingUserComments)
  /\ messages' = <<>>
  /\ dialogs' = 0
  /\ userClean' = (userClean /\ ~InFlightKind("user"))
  /\ UNCHANGED <<slug, solVars, officialComments, userComments, userCommentsPage,
                 hasMoreUserComments, totalOfficialComments, totalUserComments,
                 userLoads, userSlug, userApplied, ratingVars, composeVars, isLoggedIn,
                 authVars>>
  /\ UNCHANGED <<lastOk, visited>>

(* ------------------------- the template's events ---------------------- *)

\* "Load more" on the comments tab: loadComments(slug, true).
LoadMoreComments ==
  /\ Event("loadComments")
  /\ phase = "active"
  /\ LoadComments(slug, TRUE)
  /\ inflight' = inflight (+) CommentsReqs(slug, TRUE)
  /\ Fits(inflight')
  /\ messages' = <<>>
  /\ dialogs' = 0
  /\ UNCHANGED <<phase, slug, solVars, ratingVars, composeVars, isLoggedIn,
                 authVars>>
  /\ UNCHANGED <<lastOk, visited>>

\* "Load more" on the ratings tab: loadRatings(slug, true).
LoadMoreRatings ==
  /\ Event("loadRatings")
  /\ phase = "active"
  /\ LoadRatings(slug, TRUE)
  /\ inflight' = inflight (+) RatingsReqs(slug, TRUE)
  /\ Fits(inflight')
  /\ messages' = <<>>
  /\ dialogs' = 0
  /\ UNCHANGED <<phase, slug, solVars, commentVars, composeVars, isLoggedIn,
                 authVars>>
  /\ UNCHANGED <<lastOk, visited>>

\* Two-way binding of the comment box.
TypeComment(t) ==
  /\ Event("newComment")
  /\ phase = "active"
  /\ newComment' = t
  /\ messages' = <<>>
  /\ dialogs' = 0
  /\ UNCHANGED <<phase, slug, solVars, commentVars, ratingVars, newRating,
                 isLoggedIn, inflight, authVars>>
  /\ UNCHANGED <<lastOk, visited>>

\* Two-way binding of the rating widget and its comment box.
TypeRating(score, text) ==
  /\ Event("newRating")
  /\ phase = "active"
  /\ newRating' = [score |-> score, comment |-> text]
  /\ messages' = <<>>
  /\ dialogs' = 0
  /\ UNCHANGED <<phase, slug, solVars, commentVars, ratingVars, newComment,
                 isLoggedIn, inflight, authVars>>
  /\ UNCHANGED <<lastOk, visited>>

(* --------------------------- fetch callbacks -------------------------- *)

\* A slip: the flag released in next() instead of finalize().
LoadingAfterNextOnly(o) == ~o.ok

\* finalize(): the loading flag after a fetch ended, however it ended.
LoadingAfter(o) == FALSE

\* The error callback of a fetch: one error toast; next() adds none.
FetchMessages(o, detail) == IF o.ok THEN <<>> ELSE <<Msg("error", detail)>>

\* loadSolution's subscriber and its finalize.
RespSolution(r, o) ==
  /\ Callback
  /\ r.kind = "solution"
  /\ inflight' = inflight (-) One(r)
  /\ solution' = (IF Succeeded(o) THEN r.slug ELSE solution)
  /\ loading' = LoadingAfter(o)
  /\ messages' = FetchMessages(o, "Failed to load solution details")
  /\ dialogs' = 0
  /\ UNCHANGED <<phase, slug, commentVars, ratingVars, composeVars, isLoggedIn,
                 authVars>>
  /\ lastOk' = [lastOk EXCEPT !["solution"] = Succeeded(o)]
  /\ UNCHANGED visited

\* The OFFICIAL subscriber of loadComments and its finalize.
RespOfficialComments(r, o) ==
  /\ Callback
  /\ r.kind = "official"
  /\ inflight' = inflight (-) One(r)
  /\ officialComments' =
       (IF Succeeded(o) THEN ServerSlice("official", r.slug, r.skip, r.limit)
                        ELSE officialComments)
  /\ totalOfficialComments' =
       (IF Succeeded(o) THEN Total("official", r.slug) ELSE totalOfficialComments)
  /\ loadingOfficialComments' = LoadingAfter(o)
  /\ messages' = FetchMessages(o, "Failed to load official comments")
  /\ dialogs' = 0
  /\ UNCHANGED <<phase, slug, solVars, userComments, userCommentsPage,
                 loadingUserComments, hasMoreUserComments, totalUserComments,
                 userLoads, userClean, userSlug, userApplied, ratingVars, composeVars,
                 isLoggedIn, authVars>>
  /\ lastOk' = [lastOk EXCEPT !["official"] = Succeeded(o)]
  /\ UNCHANGED visited

\* userCommentsPage after the USER subscriber ran.
UserPageAfter(o) == IF Succeeded(o) THEN userCommentsPage + 1 ELSE userCommentsPage

\* The USER subscriber of loadComments and its finalize.
RespUserComments(r, o) ==
  /\ Callback
  /\ r.kind = "user"
  /\ inflight' = inflight (-) One(r)
  /\ LET data == ServerSlice("user", r.slug, r.skip, r.limit)
         total == Total("user", r.slug)
     IN  /\ userComments' = (IF Succeeded(o) THEN userComments \o data ELSE userComments)
         /\ totalUserComments' = (IF Succeeded(o) THEN total ELSE totalUserComments)
         /\ hasMoreUserComments' =
              (IF Succeeded(o) THEN HasMore(userComments, data, total)
                               ELSE hasMoreUserComments)
  /\ userCommentsPage' = UserPageAfter(o)
  /\ loadingUserComments' = LoadingAfter(o)
  /\ messages' = FetchMessages(o, "Failed to load user comments")
  /\ dialogs' = 0
  /\ userClean' = (userClean /\ Succeeded(o))
  /\ userApplied' = (IF Succeeded(o) THEN Append(userApplied, r.skip) ELSE userApplied)
  /\ UNCHANGED <<phase, slug, solVars, officialComments, loadingOfficialComments,
                 totalOfficialComments, userLoads, userSlug, ratingVars,
                 composeVars, isLoggedIn, authVars>>
  /\ lastOk' = [lastOk EXCEPT !["user"] = Succeeded(o)]
  /\ UNCHANGED visited

\* A slip: the increment placed after the `if`, so every next() advances.
RatingsPageAdvancesOnNext(o) == IF o.ok THEN ratingsPage + 1 ELSE ratingsPage

\* ratingsPage after the ratings subscriber ran.
RatingsPageAfter(o) == IF Succeeded(o) THEN ratingsPage + 1 ELSE ratingsPage

\* loadRatings's subscriber and its finalize.
RespRatings(r, o) ==
  /\ Callback
  /\ r.kind = "ratings"
  /\ inflight' = inflight (-) One(r)
  /\ LET data == ServerSlice("ratings", r.slug, r.skip, r.limit)
         total == Total("ratings", r.slug)
     IN  /\ ratings' = (IF Succeeded(o) THEN ratings \o data ELSE ratings)
         /\ totalRatings' = (IF Succeeded(o) THEN total ELSE totalRatings)
         /\ hasMoreRatings' =
              (IF Succeeded(o) THEN HasMore(ratings, data, total) ELSE hasMoreRatings)
  /\ ratingsPage' = RatingsPageAfter(o)
  /\ loadingRatings' = LoadingAfter(o)
  /\ messages' = FetchMessages(o, "Failed to load ratings")
  /\ dialogs' = 0
  /\ ratingClean' = (ratingClean /\ Succeeded(o))
  /\ ratingApplied' = (IF Succeeded(o) THEN Append(ratingApplied, r.skip) ELSE ratingApplied)
  /\ UNCHANGED <<phase, slug, solVars, commentVars, ratingLoads, ratingSlug,
                 composeVars, isLoggedIn, authVars>>
  /\ lastOk' = [lastOk EXCEPT !["ratings"] = Succeeded(o)]
  /\ UNCHANGED visited

(* ------------------------------ submitComment ------------------------- *)

\* A slip: the test made without trim().
CommentIsEmpty(t) == t = <<>>

\* The early return of submitComment: !this.newComment.trim().
CommentIsBlank(t) == Trim(t) = <<>>

SubmitComment ==
  /\ Event("submitComment")
  /\ phase = "active"
  /\ inflight' =
       (IF CommentIsBlank(newComment)
          THEN inflight
          ELSE inflight (+) One(Req("addComment", slug, 0, 0,
                                    [score |-> 0, text |-> newComment])))
  /\ Fits(inflight')
  /\ messages' = <<>>
  /\ dialogs' = 0
  /\ UNCHANGED <<phase, slug, solVars, commentVars, ratingVars, composeVars,
                 isLoggedIn, authVars>>
  /\ UNCHANGED <<lastOk, visited>>

\* addComment's next callback with response.success.
RespAddCommentSuccess(r, o) ==
  /\ Callback
  /\ r.kind = "addComment"
  /\ Succeeded(o)
  /\ messages' = <<Msg("success", "Comment added successfully")>>
  /\ dialogs' = 0
  /\ newComment' = <<>>
  /\ LoadComments(r.slug, FALSE)
  /\ inflight' = (inflight (-) One(r)) (+) CommentsReqs(r.slug, FALSE)
  /\ Fits(inflight')
  /\ UNCHANGED <<phase, slug, solVars, ratingVars, newRating, isLoggedIn, authVars>>
  /\ UNCHANGED <<lastOk, visited>>

\* A slip: every error status taken for a missing sign-in.
CommentErrorAlwaysOpensLogin(status) == status >= 400

\* The branch of addComment's error callback: the login dialog or a toast.
CommentErrorOpensLogin(status) == status = Unauthorized

\* addComment's next callback without success, and its error callback.
RespAddCommentFailure(r, o) ==
  /\ Callback
  /\ r.kind = "addComment"
  /\ ~Succeeded(o)
  /\ inflight' = inflight (-) One(r)
  /\ dialogs' = (IF ~o.ok /\ CommentErrorOpensLogin(o.status) THEN 1 ELSE 0)
  /\ messages' =
       (IF ~o.ok /\ ~CommentErrorOpensLogin(o.status)
          THEN <<Msg("error", "Failed to add comment")>>
          ELSE <<>>)
  /\ UNCHANGED <<phase, slug, solVars, commentVars, ratingVars, composeVars,
                 isLoggedIn, authVars>>
  /\ UNCHANGED <<lastOk, visited>>

(* ------------------------------ submitRating -------------------------- *)

\* A slip: the score guard left out.
RatingWarningLoginOnly(loggedIn, score) ==
  IF ~loggedIn THEN <<Msg("warn", "Please login to submit a rating")>>
  ELSE <<>>

\* The two guards of submitRating, in the code's order.
RatingWarning(loggedIn, score) ==
  IF ~loggedIn THEN <<Msg("warn", "Please login to submit a rating")>>
  ELSE IF score = 0 THEN <<Msg("warn", "Please select a rating score")>>
  ELSE <<>>

SubmitRating ==
  /\ Event("submitRating")
  /\ phase = "active"
  /\ messages' = RatingWarning(isLoggedIn, newRating.score)
  /\ inflight' =
       (IF RatingWarning(isLoggedIn, newRating.score) # <<>>
          THEN inflight
          ELSE inflight (+) One(Req("addRating", slug, 0, 0,
                                    [score |-> newRating.score,
                                     text |-> newRating.comment])))
  /\ Fits(inflight')
  /\ dialogs' = 0
  /\ UNCHANGED <<phase, slug, solVars, commentVars, ratingVars, composeVars,
                 isLoggedIn, authVars>>
  /\ UNCHANGED <<lastOk, visited>>

\* addRating's next callback with response.success.
RespAddRatingSuccess(r, o) ==
  /\ Callback
  /\ r.kind = "addRating"
  /\ Succeeded(o)
  /\ messages' = <<Msg("success", "Rating submitted successfully")>>
  /\ dialogs' = 0
  /\ newRating' = [score |-> 0, comment |-> <<>>]
  /\ LoadRatings(r.slug, FALSE)
  /\ LoadSolution(r.slug)
  /\ inflight' = (inflight (-) One(r)) (+) RatingsReqs(r.slug, FALSE)
                                       (+) SolutionReqs(r.slug)
  /\ Fits(inflight')
  /\ UNCHANGED <<phase, slug, commentVars, newComment, isLoggedIn, authVars>>
  /\ UNCHANGED <<lastOk, visited>>

\* addRating's next callback without success, and its error callback.
RespAddRatingFailure(r, o) ==
  /\ Callback
  /\ r.kind = "addRating"
  /\ ~Succeeded(o)
  /\ inflight' = inflight (-) One(r)
  /\ messages' =
       (IF o.ok THEN <<>>
        ELSE <<Msg("error", IF o.detail # "" THEN o.detail
                            ELSE "Failed to submit rating")>>)
  /\ dialogs' = 0
  /\ UNCHANGED <<phase, slug, solVars, commentVars, ratingVars, composeVars,
                 isLoggedIn, authVars>>
  /\ UNCHANGED <<lastOk, visited>>

(* -------------------------- the specification ------------------------- *)

Next ==
  \/ \E s \in Slugs, present \in BOOLEAN : NgOnInit(s, present)
  \/ \E s \in Slugs : RouteChange(s)
  \/ \E present \in BOOLEAN : AuthUser(present)
  \/ NgOnDestroy
  \/ LoadMoreComments
  \/ LoadMoreRatings
  \/ \E t \in Texts : TypeComment(t)
  \/ \E score \in RatingScores, text \in RatingComments : TypeRating(score, text)
  \/ SubmitComment
  \/ SubmitRating
  \/ \E r \in BagToSet(inflight), o \in FetchOutcomes : RespSolution(r, o)
  \/ \E r \in BagToSet(inflight), o \in FetchOutcomes : RespOfficialComments(r, o)
  \/ \E r \in BagToSet(inflight), o \in FetchOutcomes : RespUserComments(r, o)
  \/ \E r \in BagToSet(inflight), o \in FetchOutcomes : RespRatings(r, o)
  \/ \E r \in BagToSet(inflight), o \in CommentOutcomes : RespAddCommentSuccess(r, o)
  \/ \E r \in BagToSet(inflight), o \in CommentOutcomes : RespAddCommentFailure(r, o)
  \/ \E r \in BagToSet(inflight), o \in RatingOutcomes : RespAddRatingSuccess(r, o)
  \/ \E r \in BagToSet(inflight), o \in RatingOutcomes : RespAddRatingFailure(r, o)

Spec == Init /\ [][Next]_vars

\* A GET of a feed ends: the HTTP client calls next or error, then finalize.
FeedAnswer ==
  \E r \in BagToSet(inflight), o \in FetchOutcomes :
    \/ RespOfficialComments(r, o)
    \/ RespUserComments(r, o)
    \/ RespRatings(r, o)

\* While a GET of a feed is unanswered, one of them is answered at last.
FetchAnswered == WF_vars(FeedAnswer)

SpecLive == Spec /\ FetchAnswered

(* --------------------------- the interceptor -------------------------- *)

\* String.prototype.startsWith and includes on symbol sequences.
StartsWith(u, p) == Len(u) >= Len(p) /\ SubSeq(u, 1, Len(p)) = p

Includes(u, p) ==
  \E i \in 0..(Len(u) - Len(p)) : SubSeq(u, i + 1, i + Len(p)) = p

\* request.method.toLowerCase().
ToLowerCase(m) ==
  CASE m = "GET" -> "get"
    [] m = "POST" -> "post"
    [] m = "PUT" -> "put"
    [] m = "DELETE" -> "delete"
    [] OTHER -> m

UsersMe == ApiUrl \o <<"/", "users", "/", "me">>

SolutionsMy == <<"/", "solutions", "/", "my", "/">>

\* A slip: the PUT case left out of the method test.
ShouldAddTokenPostOnly(req) ==
  LET url == req.url
      method == ToLowerCase(req.method)
  IN  \/ url = UsersMe
      \/ Includes(url, SolutionsMy)
      \/ /\ StartsWith(url, ApiUrl)
         /\ method = "post"

ShouldAddToken(req) ==
  LET url == req.url
      method == ToLowerCase(req.method)
  IN  \/ url = UsersMe
      \/ Includes(url, SolutionsMy)
      \/ /\ StartsWith(url, ApiUrl)
         /\ (method = "post" \/ method = "put")

\* localStorage.getItem(tokenKey).
GetAuthToken == token

\* `if (token)`: null and the empty string are falsy.
Truthy(tok) == tok # NoToken /\ tok # ""

Bearer(tok) == <<"Authorization", <<"Bearer", tok>>>>

\* request.clone({setHeaders}): the header is set, the rest is copied.
SetHeader(req, header) ==
  [req EXCEPT !.headers = {h \in @ : h[1] # header[1]} \cup {header}]

Intercepted(req) ==
  IF ShouldAddToken(req) /\ Truthy(GetAuthToken)
    THEN SetHeader(req, Bearer(GetAuthToken))
    ELSE req

\* intercept(request, next): the request handed to next.handle.
Intercept ==
  /\ request # NoRequest
  /\ forwarded = NoRequest
  /\ forwarded' = Intercepted(request)
  /\ UNCHANGED <<request, token, compVars>>

Urls == {p \o t : p \in UrlPrefixes, t \in UrlTails}

InitAuth ==
  /\ InitComponent
  /\ request \in [url : Urls, method : Methods, headers : {{}}]
  /\ token \in Tokens
  /\ forwarded = NoRequest

NextAuth == Intercept

SpecAuth == InitAuth /\ [][NextAuth]_vars

(* ======================= the claims, C1 to C10 ======================== *)

\* How many requests of a kind are unanswered.
CountKind(bag, kind) ==
  BagCardinality([r \in {x \in BagToSet(bag) : x.kind = kind} |-> bag[r]])

\* The first page of a feed of a slug.
FirstPage(kind, s) == Req(kind, s, 0, PageSize, NoBody)

\* C1: a load-more call made while the feed's hasMore flag is false or its
\* loading flag is true issues no request and changes no feed state, for the
\* user comments and for the ratings.
C1_LoadMoreIsNoOp ==
  [][ /\ (LoadMoreRatings /\ (~hasMoreRatings \/ loadingRatings))
          => /\ inflight' = inflight
             /\ UNCHANGED <<ratings, ratingsPage, hasMoreRatings, loadingRatings,
                            totalRatings>>
      /\ (LoadMoreComments /\ (~hasMoreUserComments \/ loadingUserComments))
          => /\ inflight' = inflight
             /\ UNCHANGED <<userComments, userCommentsPage, hasMoreUserComments,
                            loadingUserComments, totalUserComments>>
    ]_vars

\* C2: after k sequential, answered load calls on a freshly reset feed the
\* feed holds the first min(10*k, T) entries of the server's list, and
\* hasMore is (10*k < T); with T = 25: 10, 20, 25 and true, true, false.
C2_SequentialPages ==
  /\ (userLoads >= 1 /\ userClean /\ ~InFlightKind("user"))
       => /\ userComments =
               ServerPrefix("user", userSlug,
                            Min(10 * userLoads, Total("user", userSlug)))
          /\ hasMoreUserComments = (10 * userLoads < Total("user", userSlug))
  /\ (ratingLoads >= 1 /\ ratingClean /\ ~InFlightKind("ratings"))
       => /\ ratings =
               ServerPrefix("ratings", ratingSlug,
                            Min(10 * ratingLoads, Total("ratings", ratingSlug)))
          /\ hasMoreRatings = (10 * ratingLoads < Total("ratings", ratingSlug))

\* C2's case: the third sequential load of 25 ratings was applied.
C2_Witness ==
  /\ ratingClean
  /\ ratingLoads = 3
  /\ ~InFlightKind("ratings")
  /\ Total("ratings", ratingSlug) = 25
  /\ Len(ratings) = 25
  /\ ~hasMoreRatings

\* C3: right after a reset the three feeds are empty, both page counters are
\* 0 and both hasMore flags are true, whatever the state before.
C3_ResetClearsFeeds ==
  [][ (\E s \in Slugs : OnParams(s))
        => /\ officialComments' = <<>>
           /\ userComments' = <<>>
           /\ ratings' = <<>>
           /\ userCommentsPage' = 0
           /\ ratingsPage' = 0
           /\ hasMoreUserComments'
           /\ hasMoreRatings'
    ]_vars

\* C4: every reset for a slug issues exactly one first-page request for that
\* slug on each of the three feeds, also while a fetch is in flight.
C4_ResetIssuesFirstPages ==
  [][ \A s \in Slugs :
        OnParams(s)
          => \A kind \in {"official", "user", "ratings"} :
               /\ CountKind(inflight', kind) = CountKind(inflight, kind) + 1
               /\ CopiesIn(FirstPage(kind, s), inflight')
                    = CopiesIn(FirstPage(kind, s), inflight) + 1
    ]_vars

\* C5: a fetch that fails leaves the feed's items, page counter and hasMore
\* flag as they were and produces exactly one error notification; a page
\* counter advances only when a response with success = true is applied.
C5_FailedFetchKeepsFeed ==
  [][ /\ \A r \in BagToSet(inflight), o \in FetchOutcomes :
           /\ (~o.ok /\ RespOfficialComments(r, o))
                => /\ UNCHANGED officialComments
                   /\ Len(messages') = 1
                   /\ messages'[1].severity = "error"
           /\ (~o.ok /\ RespUserComments(r, o))
                => /\ UNCHANGED <<userComments, userCommentsPage,
                                  hasMoreUserComments>>
                   /\ Len(messages') = 1
                   /\ messages'[1].severity = "error"
           /\ (~o.ok /\ RespRatings(r, o))
                => /\ UNCHANGED <<ratings, ratingsPage, hasMoreRatings>>
                   /\ Len(messages') = 1
                   /\ messages'[1].severity = "error"
           /\ (~Succeeded(o) /\ (RespUserComments(r, o) \/ RespRatings(r, o)))
                => UNCHANGED <<userCommentsPage, ratingsPage>>
      /\ userCommentsPage' > userCommentsPage
           => \E r \in BagToSet(inflight) : RespUserComments(r, Success)
      /\ ratingsPage' > ratingsPage
           => \E r \in BagToSet(inflight) : RespRatings(r, Success)
    ]_vars

\* C5's case: the fetch of the second page of ratings has just failed.
C5_Witness ==
  /\ messages = <<Msg("error", "Failed to load ratings")>>
  /\ ratingsPage = 1
  /\ Len(ratings) = 10
  /\ hasMoreRatings

\* C6: whenever a rating submission succeeds the compose fields are reset
\* and both a first-page ratings request and a GET of the solution are
\* issued, also while an earlier ratings fetch is in flight.
C6_RatingSuccessRefetches ==
  [][ \A r \in BagToSet(inflight) :
        RespAddRatingSuccess(r, Success)
          => /\ newRating' = [score |-> 0, comment |-> <<>>]
             /\ CopiesIn(FirstPage("ratings", r.slug), inflight')
                  = CopiesIn(FirstPage("ratings", r.slug), inflight) + 1
             /\ CopiesIn(Req("solution", r.slug, 0, 0, NoBody), inflight')
                  = CopiesIn(Req("solution", r.slug, 0, 0, NoBody), inflight) + 1
    ]_vars

\* C7: between two resets the official comments are requested once: no
\* load-more call on the comments issues an official-comments request, and
\* every official-comments request asks for skip 0, limit 10.
C7_OfficialRequestedOnce ==
  [][ /\ LoadMoreComments
           => CountKind(inflight', "official") = CountKind(inflight, "official")
      /\ \A r \in BagToSet(inflight') :
           r.kind = "official" => (r.skip = 0 /\ r.limit = 10)
    ]_vars

\* C8: after teardown no callback changes the component's state or issues
\* a request.
C8_NothingAfterTeardown ==
  [][ phase = "destroyed"
        => /\ UNCHANGED <<solution, officialComments, userComments, ratings,
                          userCommentsPage, ratingsPage, hasMoreUserComments,
                          hasMoreRatings>>
           /\ \A r \in BagToSet(inflight') : CopiesIn(r, inflight') <= CopiesIn(r, inflight)
    ]_vars

\* Whether a request carries an Authorization header, and which.
Authorization(req) == {h[2] : h \in {x \in req.headers : x[1] = "Authorization"}}

\* The claim's three cases, read off the URL symbol by symbol.
IsUsersMe(url) ==
  url = <<"https://host", "/", "api", "/", "users", "/", "me">>

ContainsSolutionsMy(url) ==
  \E i \in 1..Len(url) :
    /\ i + 4 <= Len(url)
    /\ url[i] = "/" /\ url[i + 1] = "solutions" /\ url[i + 2] = "/"
    /\ url[i + 3] = "my" /\ url[i + 4] = "/"

UnderApiBase(url) ==
  /\ Len(url) >= 3
  /\ url[1] = "https://host" /\ url[2] = "/" /\ url[3] = "api"

\* C9: the forwarded request carries Authorization: Bearer <token> if and
\* only if a non-empty token is stored and the URL is {apiBase}/users/me, or
\* contains /solutions/my/, or is under {apiBase} with method POST or PUT;
\* nothing else of the request changes.
C9_BearerIffRule ==
  forwarded # NoRequest
    => /\ forwarded.url = request.url
       /\ forwarded.method = request.method
       /\ Authorization(forwarded) \subseteq {<<"Bearer", token>>}
       /\ (Authorization(forwarded) # {})
            <=> /\ token \notin {NoToken, ""}
                /\ \/ IsUsersMe(request.url)
                   \/ ContainsSolutionsMy(request.url)
                   \/ /\ UnderApiBase(request.url)
                      /\ request.method \in {"POST", "PUT"}

\* C9's case: a PUT under the API base was forwarded with the header.
C9_Witness ==
  /\ forwarded # NoRequest
  /\ forwarded.method = "PUT"
  /\ ~IsUsersMe(forwarded.url)
  /\ ~ContainsSolutionsMy(forwarded.url)
  /\ Authorization(forwarded) = {<<"Bearer", "t0k3n">>}

\* C10: a comment submission that fails with status 401 opens the login
\* dialog and adds no error notification; one that fails with another
\* status adds one error notification and opens no dialog; both leave the
\* compose text and the comment feeds as they were.
C10_CommentFailure ==
  [][ \A r \in BagToSet(inflight), o \in CommentOutcomes :
        (~o.ok /\ RespAddCommentFailure(r, o))
          => /\ (o.status = 401) => (dialogs' = 1 /\ messages' = <<>>)
             /\ (o.status # 401)
                  => /\ dialogs' = 0
                     /\ Len(messages') = 1
                     /\ messages'[1].severity = "error"
             /\ UNCHANGED <<newComment, officialComments, userComments>>
    ]_vars

\* C10's case: the login dialog was opened and the typed comment is kept.
C10_Witness ==
  /\ dialogs = 1
  /\ messages = <<>>
  /\ Trim(newComment) # <<>>

(* ======================= the claims, C11 to C20 ======================= *)

\* C11: submitRating called while not logged in, or with score 0, issues no
\* request, produces exactly one warning notification, and leaves the
\* compose fields, the ratings feed and the solution unchanged.
C11_RatingGuards ==
  [][ (SubmitRating /\ (~isLoggedIn \/ newRating.score = 0))
        => /\ inflight' = inflight
           /\ Len(messages') = 1
           /\ messages'[1].severity = "warn"
           /\ UNCHANGED <<newComment, newRating, ratings, ratingsPage,
                          hasMoreRatings, loadingRatings, totalRatings,
                          solution, loading>>
    ]_vars

\* C11's case: a signed-in user submitted a rating without a score.
C11_Witness ==
  /\ handler = "submitRating"
  /\ isLoggedIn
  /\ newRating.score = 0
  /\ messages = <<Msg("warn", "Please select a rating score")>>
  /\ CountKind(inflight, "addRating") = 0

\* A compose text with no symbol other than blanks.
WhitespaceOnly(t) == \A i \in 1..Len(t) : t[i] = " "

\* C12: submitComment called while the compose text is empty or
\* whitespace-only issues no request and changes no state: the compose
\* text, the comment feeds, the page counter and the flags stay as they were.
C12_BlankCommentIsNoOp ==
  [][ (SubmitComment /\ WhitespaceOnly(newComment))
        => /\ inflight' = inflight
           /\ messages' = <<>>
           /\ dialogs' = 0
           /\ UNCHANGED <<newComment, newRating, officialComments, userComments,
                          userCommentsPage, loadingOfficialComments,
                          loadingUserComments, hasMoreUserComments,
                          totalOfficialComments, totalUserComments, ratings,
                          ratingsPage, hasMoreRatings, loadingRatings,
                          totalRatings, solution, loading, isLoggedIn, slug>>
    ]_vars

\* C12's case: submitComment ran on a text of two blanks.
C12_Witness ==
  /\ handler = "submitComment"
  /\ newComment = <<" ", " ">>
  /\ CountKind(inflight, "addComment") = 0

\* C13: in every reachable state each feed (official comments, user
\* comments, ratings) has at most one fetch request in flight.
C13_OneFetchPerFeed ==
  \A kind \in {"official", "user", "ratings"} : CountKind(inflight, kind) <= 1

\* C14, as claimed: in every reachable state, the initial one included, for
\* the user comments and for the ratings, hasMore equals (items held < total).
C14_HasMoreEverywhere ==
  /\ hasMoreUserComments = (Len(userComments) < totalUserComments)
  /\ hasMoreRatings = (Len(ratings) < totalRatings)

\* C14, amended: in every reachable state in which a page was appended to
\* the feed since its last reset, also after a later failed fetch, hasMore
\* equals (items held < total), for the user comments and for the ratings.
C14_HasMoreAfterPage ==
  /\ userApplied # <<>>
       => hasMoreUserComments = (Len(userComments) < totalUserComments)
  /\ ratingApplied # <<>>
       => hasMoreRatings = (Len(ratings) < totalRatings)

\* C14's case: the first page of 25 ratings is held and the fetch of the
\* second page has failed.
C14_Witness ==
  /\ ratingApplied = <<0>>
  /\ ~lastOk["ratings"]
  /\ Len(ratings) = 10
  /\ totalRatings = 25
  /\ hasMoreRatings

\* C15: in every reachable state the number of items each feed holds is at
\* most the feed's total, the server answering each request with the slice
\* [skip, skip + limit) of a fixed list and the list's length.
C15_ItemsAtMostTotal ==
  /\ Len(officialComments) <= totalOfficialComments
  /\ Len(userComments) <= totalUserComments
  /\ Len(ratings) <= totalRatings

\* No value occurs twice in the sequence.
Distinct(seq) == \A i, j \in 1..Len(seq) : i # j => seq[i] # seq[j]

\* C16: between two resets of a feed no server page is appended to the
\* feed's items more than once: the skip values of the responses applied to
\* the feed are pairwise distinct, also with load-more calls made while an
\* earlier fetch of the feed is unanswered, and after failures and retries.
C16_NoPageTwice ==
  /\ Distinct(userApplied)
  /\ Distinct(ratingApplied)

\* C17: every feed fetch that completes, with success or with failure,
\* leaves the feed's loading flag false, and a load-more on a feed with
\* hasMore = true and no fetch in flight issues a request; no loading flag
\* stays true for ever: each is false again and again.
C17_LoadingReleased ==
  /\ [][ /\ \A r \in BagToSet(inflight), o \in FetchOutcomes :
                /\ (RespOfficialComments(r, o) => ~loadingOfficialComments')
                /\ (RespUserComments(r, o) => ~loadingUserComments')
                /\ (RespRatings(r, o) => ~loadingRatings')
         /\ (LoadMoreRatings /\ hasMoreRatings /\ ~loadingRatings)
              => CountKind(inflight', "ratings") = CountKind(inflight, "ratings") + 1
         /\ (LoadMoreComments /\ hasMoreUserComments /\ ~loadingUserComments)
              => CountKind(inflight', "user") = CountKind(inflight, "user") + 1
       ]_vars
  /\ []<>~loadingOfficialComments
  /\ []<>~loadingUserComments
  /\ []<>~loadingRatings

\* C17's case: a ratings fetch failed after the first page, and the next
\* load-more has issued a request.
C17_Witness ==
  /\ handler = "loadRatings"
  /\ ratingsPage = 1
  /\ ~lastOk["ratings"]
  /\ loadingRatings
  /\ CountKind(inflight, "ratings") = 1

\* Every entry of the feed belongs to the slug.
OnlyOf(feed, s) == \A i \in 1..Len(feed) : feed[i][1] = s

\* C18: after the route slug changed, whatever was in flight at the change
\* and in whatever order the responses arrived, in every state of the live
\* page in which no request is in flight solution$ holds the solution of the
\* route's slug (its last fetch having succeeded) and the three feeds hold
\* only entries of that slug.
C18_OnlyCurrentSlug ==
  (phase = "active" /\ inflight = EmptyBag /\ Cardinality(visited) > 1)
    => /\ lastOk["solution"] => solution = slug
       /\ OnlyOf(officialComments, slug)
       /\ OnlyOf(userComments, slug)
       /\ OnlyOf(ratings, slug)

\* The feed is a gap-free prefix of the server's list of the slug.
IsPrefix(feed, kind, s) == feed = ServerPrefix(kind, s, Len(feed))

\* C19: on a page that showed a single slug, in every state in which no
\* fetch of a feed is in flight and the feed's last fetch succeeded, the
\* feed's items are the first n entries of the server's list, n being the
\* number of items held, under any interleaving of load-more calls and of
\* refreshes after a successful submission.
C19_GapFreePrefix ==
  visited = {slug}
    => /\ (~InFlightKind("official") /\ lastOk["official"])
            => IsPrefix(officialComments, "official", slug)
       /\ (~InFlightKind("user") /\ lastOk["user"])
            => IsPrefix(userComments, "user", slug)
       /\ (~InFlightKind("ratings") /\ lastOk["ratings"])
            => IsPrefix(ratings, "ratings", slug)

\* C20: in every reachable state of the live page (after ngOnInit, before
\* teardown) each loading flag is true if and only if at least one request
\* of its kind is in flight, also when two requests of one kind overlap
\* and the first completes before the second.
C20_FlagIffInFlight ==
  phase = "active"
    => /\ loading <=> InFlightKind("solution")
       /\ loadingOfficialComments <=> InFlightKind("official")
       /\ loadingUserComments <=> InFlightKind("user")
       /\ loadingRatings <=> InFlightKind("ratings")

====
